---- MODULE Spec2Model ----
(***************************************************************************)
(* A model of dashboard.py: the loaders that turn the spreadsheet tables   *)
(* into tidy (Year, value) series, the year window, and the derived ratio. *)
(*                                                                         *)
(* Text (column labels, country names, non-numeric cells) is a sequence of *)
(* one-character strings, so that strip(), lower(), float() and            *)
(* pd.to_numeric() are computed character by character.                    *)
(***************************************************************************)
EXTENDS Integers, Sequences, FiniteSets, TLC

(***************************************************************************)
(* Bounds of the model.                                                    *)
(***************************************************************************)
MaxCols == 2

MaxRows == 2

MaxEvents == 3

(***************************************************************************)
(* Program constants.                                                      *)
(***************************************************************************)
YearLo == 1700

YearHi == 2100

ModernStart == 1980

KtPerMt == 1000

\* COUNTRY = "China"
COUNTRY == <<"C", "h", "i", "n", "a">>

\* A float NaN: the result of a failed coercion, a null cell, the min() or
\* max() of an empty column.  No number of the model is negative.
NaN == -1

(***************************************************************************)
(* Text helpers.                                                           *)
(***************************************************************************)
Digits == <<"0", "1", "2", "3", "4", "5", "6", "7", "8", "9">>

UpperAlpha == <<"A", "B", "C", "D", "E", "F", "G", "H", "I", "J", "K", "L", "M",
                "N", "O", "P", "Q", "R", "S", "T", "U", "V", "W", "X", "Y", "Z">>

LowerAlpha == <<"a", "b", "c", "d", "e", "f", "g", "h", "i", "j", "k", "l", "m",
                "n", "o", "p", "q", "r", "s", "t", "u", "v", "w", "x", "y", "z">>

Range(s) == {s[i] : i \in DOMAIN s}

IndexOf(c, s) == IF c \in Range(s) THEN CHOOSE i \in DOMAIN s : s[i] = c ELSE 0

IsDigit(c) == c \in Range(Digits)

DigitVal(c) == IndexOf(c, Digits) - 1

IsSpace(c) == c = " "

\* str.strip()
RECURSIVE LStrip(_)
LStrip(s) == IF s # <<>> /\ IsSpace(Head(s)) THEN LStrip(Tail(s)) ELSE s

RECURSIVE RStrip(_)
RStrip(s) ==
    IF s # <<>> /\ IsSpace(s[Len(s)]) THEN RStrip(SubSeq(s, 1, Len(s) - 1)) ELSE s

Strip(s) == RStrip(LStrip(s))

\* str.lower()
LowerChar(c) ==
    IF c \in Range(UpperAlpha) THEN LowerAlpha[IndexOf(c, UpperAlpha)] ELSE c

Lower(s) == [i \in DOMAIN s |-> LowerChar(s[i])]

\* str.replace("_", " ")
UnderscoreToSpace(s) == [i \in DOMAIN s |-> IF s[i] = "_" THEN " " ELSE s[i]]

\* The position of the first character of s that is in cs, 0 when there is none.
FirstOf(s, cs) ==
    IF \E i \in DOMAIN s : s[i] \in cs
    THEN CHOOSE i \in DOMAIN s : s[i] \in cs /\ \A j \in 1..(i - 1) : s[j] \notin cs
    ELSE 0

RECURSIVE Pow10(_)
Pow10(n) == IF n = 0 THEN 1 ELSE 10 * Pow10(n - 1)

(***************************************************************************)
(* Number parsing.  A parsed number is [ok, kind, neg, mant, scale]: the   *)
(* value (-1)^neg * mant / 10^scale, or a nan or an infinity.              *)
(***************************************************************************)
\* A run of digits; float() also allows single underscores between digits.
DigitPartOk(s, underscores) ==
    /\ s # <<>>
    /\ \A i \in DOMAIN s : IsDigit(s[i]) \/ (underscores /\ s[i] = "_")
    /\ IsDigit(s[1])
    /\ IsDigit(s[Len(s)])
    /\ \A i \in 1..(Len(s) - 1) : ~(s[i] = "_" /\ s[i + 1] = "_")

OnlyDigits(s) == SelectSeq(s, IsDigit)

RECURSIVE DigitsToNat(_)
DigitsToNat(s) ==
    IF s = <<>> THEN 0
    ELSE 10 * DigitsToNat(SubSeq(s, 1, Len(s) - 1)) + DigitVal(s[Len(s)])

ParseFail == [ok |-> FALSE, kind |-> "none", neg |-> FALSE, mant |-> 0, scale |-> 0]

\* The text before position pos of s (all of s when pos = 0), and after it.
Before(s, pos) == IF pos = 0 THEN s ELSE SubSeq(s, 1, pos - 1)

After(s, pos) == IF pos = 0 THEN <<>> ELSE SubSeq(s, pos + 1, Len(s))

HasSign(s) == s # <<>> /\ s[1] \in {"+", "-"}

Unsigned(s) == IF HasSign(s) THEN Tail(s) ELSE s

IsNegative(s) == HasSign(s) /\ s[1] = "-"

\* The number of integer digits itxt, fraction digits ftxt and exponent etxt.
ParseParts(itxt, ftxt, etxt, hasexp, eneg, neg, underscores) ==
    IF /\ itxt = <<>> \/ DigitPartOk(itxt, underscores)
       /\ ftxt = <<>> \/ DigitPartOk(ftxt, underscores)
       /\ ~hasexp \/ DigitPartOk(etxt, underscores)
       /\ itxt # <<>> \/ ftxt # <<>>
    THEN [ok |-> TRUE, kind |-> "num", neg |-> neg,
          mant |-> DigitsToNat(OnlyDigits(itxt) \o OnlyDigits(ftxt)),
          scale |-> Len(OnlyDigits(ftxt))
                      - (IF ~hasexp THEN 0
                         ELSE IF eneg THEN 0 - DigitsToNat(OnlyDigits(etxt))
                         ELSE DigitsToNat(OnlyDigits(etxt)))]
    ELSE ParseFail

\* The number of mantissa mtxt and exponent text etxt (sign included).
ParseMantissa(mtxt, etxt, hasexp, neg, underscores) ==
    ParseParts(Before(mtxt, FirstOf(mtxt, {"."})),
               After(mtxt, FirstOf(mtxt, {"."})),
               Unsigned(etxt), hasexp, IsNegative(etxt), neg, underscores)

ParseUnsigned(s, neg, underscores) ==
    IF Lower(s) = <<"n", "a", "n">>
    THEN [ok |-> TRUE, kind |-> "nan", neg |-> neg, mant |-> 0, scale |-> 0]
    ELSE IF Lower(s) \in {<<"i", "n", "f">>, <<"i", "n", "f", "i", "n", "i", "t", "y">>}
    THEN [ok |-> TRUE, kind |-> "inf", neg |-> neg, mant |-> 0, scale |-> 0]
    ELSE ParseMantissa(Before(s, FirstOf(s, {"e", "E"})),
                       After(s, FirstOf(s, {"e", "E"})),
                       FirstOf(s, {"e", "E"}) # 0, neg, underscores)

ParseStripped(s, underscores) ==
    ParseUnsigned(Unsigned(s), IsNegative(s), underscores)

\* The grammar the two parsers share: [sign] (nan | inf | infinity |
\* digits [. digits] [e [sign] digits]); surrounding blanks are ignored.
ParseNumber(text, underscores) == ParseStripped(Strip(text), underscores)

\* Python's float(str): underscores between digits are accepted.
PyFloat(text) == ParseNumber(text, TRUE)

\* Truncation toward zero of a finite parsed number, as a magnitude.
TruncMagnitude(p) ==
    IF p.scale >= 0 THEN p.mant \div Pow10(p.scale) ELSE p.mant * Pow10(0 - p.scale)

\* Python's int(float): raises on nan and on an infinity.
IntRaises(p) == ~p.ok \/ p.kind # "num"

IntOf(p) == IF p.neg THEN 0 - TruncMagnitude(p) ELSE TruncMagnitude(p)

(***************************************************************************)
(* pandas helpers.  A table is [columns, rows]: rows[i][j] is the cell of  *)
(* row i under columns[j].  A long table is a sequence of records.         *)
(***************************************************************************)
\* nan where the parse failed.
Coerce(p) == IF p.ok THEN p ELSE [ParseFail EXCEPT !.ok = TRUE, !.kind = "nan"]

ToNumericLikeFloat(text) == Coerce(ParseNumber(text, TRUE))

\* pd.to_numeric(text, errors="coerce"): the parsed float, nan on a failure.
\* The pandas parser takes no underscores.
ToNumeric(text) == Coerce(ParseNumber(text, FALSE))

IsNa(p) == p.kind = "nan"

\* sort_values("Year"): ascending; rows of one year keep their order (the
\* insertion sort numpy applies to short columns).
RECURSIVE InsertByYear(_, _)
InsertByYear(sorted, r) ==
    IF sorted = <<>> THEN <<r>>
    ELSE IF sorted[Len(sorted)].Year <= r.Year THEN Append(sorted, r)
    ELSE Append(InsertByYear(SubSeq(sorted, 1, Len(sorted) - 1), r),
                sorted[Len(sorted)])

RECURSIVE SortByYear(_)
SortByYear(s) ==
    IF s = <<>> THEN <<>>
    ELSE InsertByYear(SortByYear(SubSeq(s, 1, Len(s) - 1)), s[Len(s)])

\* The column s["Year"] as a sequence, and its min() and max() (nan when empty).
YearsOf(s) == [k \in DOMAIN s |-> s[k].Year]

SeriesMin(s) ==
    IF s = <<>> THEN NaN
    ELSE CHOOSE y \in Range(YearsOf(s)) : \A z \in Range(YearsOf(s)) : y <= z

SeriesMax(s) ==
    IF s = <<>> THEN NaN
    ELSE CHOOSE y \in Range(YearsOf(s)) : \A z \in Range(YearsOf(s)) : y >= z

(***************************************************************************)
(* _melt_years                                                             *)
(***************************************************************************)
LCountry == <<"C", "o", "u", "n", "t", "r", "y">>

IdSynonyms == {<<"c", "o", "u", "n", "t", "r", "y">>,
               <<"c", "o", "u", "n", "t", "r", "y", " ", "n", "a", "m", "e">>,
               <<"n", "a", "t", "i", "o", "n">>}

\* df.columns = [str(c).strip() for c in df.columns]
NormalizeHeaders(columns) == [j \in DOMAIN columns |-> Strip(columns[j])]

IsIdSynonym(c) == Lower(c) \in IdSynonyms

\* The identifier column: the one asked for, else the first synonym, else
\* the first column.
ResolveIdCol(columns, idc) ==
    IF idc \in Range(columns) THEN idc
    ELSE IF SelectSeq(columns, IsIdSynonym) # <<>>
         THEN SelectSeq(columns, IsIdSynonym)[1]
         ELSE columns[1]

\* The float p, as an int, is a year.
IntIsYear(p) ==
    IF IntRaises(p) THEN FALSE
    ELSE YearLo <= IntOf(p) /\ IntOf(p) <= YearHi

is_year_any_number(c) == ~IntRaises(PyFloat(c))

\* _is_year: int(float(str(c))) lies in [1700, 2100]; an exception is False.
is_year(c) == IntIsYear(PyFloat(c))

\* year_cols = [c for c in df.columns if _is_year(c)]
YearCols(columns) == SelectSeq(columns, is_year)

\* The melted row of row i of the sheet and year column c.
MeltedRow(columns, row, idc, c) ==
    [id |-> row[IndexOf(idc, columns)], Year |-> c, value |-> row[IndexOf(c, columns)]]

HasValue(r) == r.value # NaN

\* pd.melt(df, id_vars=[id_col], value_vars=year_cols): one row per row of df
\* and year column, column after column; Year holds the column's label.
PdMeltAll(columns, rows, idc, ycols) ==
    [k \in 1..(Len(rows) * Len(ycols)) |->
        MeltedRow(columns, rows[((k - 1) % Len(rows)) + 1], idc,
                  ycols[((k - 1) \div Len(rows)) + 1])]

PdMeltDropNull(columns, rows, idc, ycols) ==
    SelectSeq(PdMeltAll(columns, rows, idc, ycols), HasValue)

PdMelt(columns, rows, idc, ycols) == PdMeltAll(columns, rows, idc, ycols)

\* out["Year"] = pd.to_numeric(out["Year"], errors="coerce")
CoerceYear(s) == [k \in DOMAIN s |-> [s[k] EXCEPT !.Year = ToNumeric(@)]]

YearIsNumber(r) == ~IsNa(r.Year)

\* out.dropna(subset=["Year"])
DropNaYear(s) == SelectSeq(s, YearIsNumber)

\* out.astype({"Year": int}): a float is truncated.
YearAsInt(s) == [k \in DOMAIN s |-> [s[k] EXCEPT !.Year = IntOf(@)]]

\* Lines 64-68 of _melt_years, from the resolved identifier and year columns.
Reshape(columns, rows, idc, ycols) ==
    SortByYear(YearAsInt(DropNaYear(CoerceYear(PdMelt(columns, rows, idc, ycols)))))

\* _country_filter: the rows whose identifier, trimmed and lower-cased, is the
\* lower-cased country name.
country_filter(s, name) ==
    SelectSeq(s, LAMBDA r : Lower(Strip(r.id)) = Lower(name))

\* long[["Year", value_name]]
YearValue(s) == [k \in DOMAIN s |-> [Year |-> s[k].Year, value |-> s[k].value]]

MeltColumns(columns, rows, idr, ycols) ==
    IF ycols = <<>> THEN [stopped |-> TRUE, out |-> <<>>]
    ELSE [stopped |-> FALSE, out |-> Reshape(columns, rows, idr, ycols)]

MeltNormalized(columns, rows, idc) ==
    MeltColumns(columns, rows, ResolveIdCol(columns, idc), YearCols(columns))

\* _melt_years(df, id_col, value_name): stopped when no year column is found.
melt_years(tbl, idc) == MeltNormalized(NormalizeHeaders(tbl.columns), tbl.rows, idc)

(***************************************************************************)
(* load_disasters.  A cell of the sheet is a number, [num |-> n], or a     *)
(* text, [text |-> t].                                                     *)
(***************************************************************************)
LYear == <<"Y", "e", "a", "r">>

LDisasters == <<"D", "i", "s", "a", "s", "t", "e", "r", "s">>

LDisasterCount == <<"D", "i", "s", "a", "s", "t", "e", "r", " ", "C", "o", "u", "n", "t">>

YearAliases == {<<"s", "t", "a", "r", "t", " ", "y", "e", "a", "r">>,
                <<"y", "e", "a", "r">>}

Num(n) == [num |-> n]

Text(t) == [text |-> t]

\* pd.to_numeric(cell, errors="coerce")
CellToNumeric(c) ==
    IF "num" \in DOMAIN c
    THEN [ok |-> TRUE, kind |-> "num", neg |-> FALSE, mant |-> c.num, scale |-> 0]
    ELSE ToNumeric(c.text)

\* A float in lowest terms, so that equal values are equal records.
RECURSIVE Canon(_)
Canon(p) ==
    IF p.kind # "num" THEN p
    ELSE IF p.mant = 0 THEN [p EXCEPT !.neg = FALSE, !.scale = 0]
    ELSE IF p.scale < 0 THEN [p EXCEPT !.mant = @ * Pow10(0 - p.scale), !.scale = 0]
    ELSE IF p.scale > 0 /\ p.mant % 10 = 0
         THEN Canon([p EXCEPT !.mant = @ \div 10, !.scale = @ - 1])
    ELSE p

HasFraction(p) == p.kind = "num" /\ Canon(p).scale > 0

\* Line 139: a Year column and a count column.
TidyShape(columns) ==
    /\ LYear \in Range(columns)
    /\ (LDisasters \in Range(columns) \/ LDisasterCount \in Range(columns))

\* Lines 140-141: the count column, "Disaster Count" renamed when it is the
\* only one.
CountCol(columns) ==
    IF LDisasterCount \in Range(columns) /\ LDisasters \notin Range(columns)
    THEN LDisasterCount ELSE LDisasters

\* Lines 142-144: (Year, Disasters) of each row, the Year coerced; rows with no
\* numeric year dropped; sorted.  astype("Int64") raises on a fraction.
TidyRaises(columns, rows) ==
    \E i \in DOMAIN rows : HasFraction(CellToNumeric(rows[i][IndexOf(LYear, columns)]))

TidyDisasters(columns, rows) ==
    SortByYear(YearAsInt(DropNaYear(
        [i \in DOMAIN rows |->
            [Year  |-> CellToNumeric(rows[i][IndexOf(LYear, columns)]),
             value |-> rows[i][IndexOf(CountCol(columns), columns)].num]])))

\* Line 150: c.lower().replace("_", " ") in ("start year", "year")
IsYearAlias(c) == UnderscoreToSpace(Lower(c)) \in YearAliases

IsStartYear(c) ==
    UnderscoreToSpace(Lower(c)) = <<"s", "t", "a", "r", "t", " ", "y", "e", "a", "r">>

FirstOrNone(cs) == IF cs = <<>> THEN <<>> ELSE <<cs[1]>>

FindYearColStartOnly(columns) == FirstOrNone(SelectSeq(columns, IsStartYear))

\* Lines 148-152: the first year-like column, <<>> when there is none.
FindYearCol(columns) == FirstOrNone(SelectSeq(columns, IsYearAlias))

\* The (id, Year) of each row, Year coerced; id is "" without a Country column.
Events(columns, rows, ycol) ==
    [i \in DOMAIN rows |->
        [id   |-> IF LCountry \in Range(columns)
                  THEN rows[i][IndexOf(LCountry, columns)].text ELSE <<>>,
         Year |-> Canon(CellToNumeric(rows[i][IndexOf(ycol, columns)]))]]

EventRowsAnyCountry(columns, rows, ycol) == DropNaYear(Events(columns, rows, ycol))

\* Lines 160-165: the rows with a numeric year, of COUNTRY when the sheet has
\* a Country column.
EventRows(columns, rows, ycol) ==
    IF LCountry \in Range(columns)
    THEN country_filter(DropNaYear(Events(columns, rows, ycol)), COUNTRY)
    ELSE DropNaYear(Events(columns, rows, ycol))

\* a <= b for two finite floats.
FloatLeq(a, b) ==
    (IF a.neg THEN 0 - a.mant ELSE a.mant) * Pow10(Canon(b).scale)
        <= (IF b.neg THEN 0 - b.mant ELSE b.mant) * Pow10(Canon(a).scale)

RECURSIVE InsertByFloat(_, _)
InsertByFloat(sorted, r) ==
    IF sorted = <<>> THEN <<r>>
    ELSE IF FloatLeq(sorted[Len(sorted)].Year, r.Year) THEN Append(sorted, r)
    ELSE Append(InsertByFloat(SubSeq(sorted, 1, Len(sorted) - 1), r),
                sorted[Len(sorted)])

RECURSIVE SortByFloat(_)
SortByFloat(s) ==
    IF s = <<>> THEN <<>>
    ELSE InsertByFloat(SortByFloat(SubSeq(s, 1, Len(s) - 1)), s[Len(s)])

\* The first row of each Year value of ev.
RECURSIVE GroupKeys(_)
GroupKeys(ev) ==
    IF ev = <<>> THEN <<>>
    ELSE IF ev[Len(ev)].Year \in Range(YearsOf(SubSeq(ev, 1, Len(ev) - 1)))
         THEN GroupKeys(SubSeq(ev, 1, Len(ev) - 1))
         ELSE Append(GroupKeys(SubSeq(ev, 1, Len(ev) - 1)), ev[Len(ev)])

GroupSizeOf(ev, keys) ==
    [k \in DOMAIN keys |->
       [Year  |-> keys[k].Year,
        value |-> Cardinality({m \in DOMAIN ev : ev[m].Year = keys[k].Year})]]

\* groupby("Year", as_index=False).size(): one row per Year value, in
\* ascending order, with the number of rows that have it.
GroupSize(ev) == GroupSizeOf(ev, SortByFloat(GroupKeys(ev)))

\* Lines 167-168: the yearly counts, Year as int, sorted.
RawDisasters(columns, rows, ycol) ==
    SortByYear(YearAsInt(GroupSize(EventRows(columns, rows, ycol))))

TidyResult(raises, columns, rows) ==
    [stopped |-> FALSE, raised |-> raises,
     out |-> IF raises THEN <<>> ELSE TidyDisasters(columns, rows)]

RawResult(columns, rows, ycol) ==
    IF ycol = <<>> THEN [stopped |-> TRUE, raised |-> FALSE, out |-> <<>>]
    ELSE [stopped |-> FALSE, raised |-> FALSE,
          out |-> RawDisasters(columns, rows, ycol[1])]

DisastersOf(columns, rows) ==
    IF TidyShape(columns) THEN TidyResult(TidyRaises(columns, rows), columns, rows)
    ELSE RawResult(columns, rows, FindYearCol(columns))

\* load_disasters(path): stopped when no year column is found; raised when
\* astype("Int64") raises.
load_disasters(tbl) == DisastersOf(NormalizeHeaders(tbl.columns), tbl.rows)

(***************************************************************************)
(* Floating-point values that are computed with: a float is [n, d], the    *)
(* value n / d in lowest terms; d = 0 is nan (n = 0) or an infinity.       *)
(***************************************************************************)
FNaN == [n |-> 0, d |-> 0]

RECURSIVE GCD(_, _)
GCD(a, b) == IF b = 0 THEN a ELSE GCD(b, a % b)

Abs(x) == IF x < 0 THEN 0 - x ELSE x

FNorm(a) ==
    IF a.d = 0 THEN [n |-> IF a.n > 0 THEN 1 ELSE IF a.n < 0 THEN 0 - 1 ELSE 0, d |-> 0]
    ELSE LET g == GCD(Abs(a.n), Abs(a.d))
             sg == IF a.d < 0 THEN 0 - 1 ELSE 1
         IN  [n |-> sg * (a.n \div g), d |-> sg * (a.d \div g)]

\* A cell as a float: a null cell is nan.
FOfCell(v) == IF v = NaN THEN FNaN ELSE [n |-> v, d |-> 1]

FIsNa(a) == a = FNaN

FAdd(a, b) ==
    IF FIsNa(a) \/ FIsNa(b) THEN FNaN
    ELSE FNorm([n |-> a.n * b.d + b.n * a.d, d |-> a.d * b.d])

FMul(a, b) ==
    IF FIsNa(a) \/ FIsNa(b) THEN FNaN
    ELSE FNorm([n |-> a.n * b.n, d |-> a.d * b.d])

FDiv(a, b) ==
    IF FIsNa(a) \/ FIsNa(b) THEN FNaN
    ELSE FNorm([n |-> a.n * b.d, d |-> a.d * b.n])

(***************************************************************************)
(* load_co2, load_energy, load_gdp, load_temp                              *)
(***************************************************************************)
Lcountry == <<"c", "o", "u", "n", "t", "r", "y">>

LCountryName == <<"C", "o", "u", "n", "t", "r", "y", " ", "N", "a", "m", "e">>

LTemperature == <<"T", "e", "m", "p", "e", "r", "a", "t", "u", "r", "e", " ",
                  "(", "°", "C", ")">>

LTemp == <<"T", "e", "m", "p", " ", "(", "°", "C", ")">>

LValue == <<"V", "a", "l", "u", "e">>

\* df.rename(columns={df.columns[0]: "Country"})
RenameFirst(columns) ==
    [j \in DOMAIN columns |-> IF columns[j] = columns[1] THEN LCountry ELSE columns[j]]

\* df.rename(columns={alias: "Country"}) when alias is a header, else the
\* first header is renamed (lines 92-95, 103-106).
RenameCountry(columns, alias) ==
    IF alias \in Range(columns)
    THEN [j \in DOMAIN columns |-> IF columns[j] = alias THEN LCountry ELSE columns[j]]
    ELSE RenameFirst(columns)

\* long["CO2 (Mt)"] = long["CO2_kt"] / 1000.0
ToMt(s) ==
    [k \in DOMAIN s |-> [s[k] EXCEPT !.value = FDiv(FOfCell(@), FOfCell(KtPerMt))]]

\* The sum of a column of floats, nan skipped.
RECURSIVE FSumSkipNa(_)
FSumSkipNa(vs) ==
    IF vs = <<>> THEN FOfCell(0)
    ELSE IF FIsNa(vs[Len(vs)]) THEN FSumSkipNa(SubSeq(vs, 1, Len(vs) - 1))
    ELSE FAdd(FSumSkipNa(SubSeq(vs, 1, Len(vs) - 1)), vs[Len(vs)])

ValuesOfYear(s, y) ==
    LET rs == SelectSeq(s, LAMBDA r : r.Year = y)
    IN  [k \in DOMAIN rs |-> rs[k].value]

GroupSumOf(s, keys) ==
    [k \in DOMAIN keys |->
       [Year  |-> keys[k].Year,
        value |-> FSumSkipNa(ValuesOfYear(s, keys[k].Year))]]

\* long.groupby("Year", as_index=False)["CO2 (Mt)"].sum(): one row per year,
\* ascending, with the sum of the year's values.
GroupSum(s) == GroupSumOf(s, SortByYear(GroupKeys(s)))

\* Lines 83-86, from the melted table in Mt.
Co2Series(long) ==
    [stopped   |-> FALSE,
     co2_cn    |-> YearValue(country_filter(long, COUNTRY)),
     co2_world |-> GroupSum(long)]

Co2Of(long) ==
    IF long.stopped THEN [stopped |-> TRUE, co2_cn |-> <<>>, co2_world |-> <<>>]
    ELSE Co2Series(ToMt(long.out))

\* load_co2(path): (co2_cn, co2_world), stopped when no year column is found.
load_co2(tbl) == Co2Of(melt_years([tbl EXCEPT !.columns = RenameFirst(@)], LCountry))

\* Line 97, 108: the rows of COUNTRY as (Year, value).
CountrySeries(long) ==
    [stopped |-> long.stopped, out |-> YearValue(country_filter(long.out, COUNTRY))]

\* load_energy(path)
load_energy(tbl) ==
    CountrySeries(melt_years([tbl EXCEPT !.columns = RenameCountry(@, Lcountry)], LCountry))

\* load_gdp(path)
load_gdp(tbl) ==
    CountrySeries(melt_years([tbl EXCEPT !.columns = RenameCountry(@, LCountryName)],
                             LCountry))

\* df.rename(columns={old: "Temperature (°C)"}) when old is a header and
\* "Temperature (°C)" is not.
RenameToTemperature(columns, old) ==
    IF old \in Range(columns) /\ LTemperature \notin Range(columns)
    THEN [j \in DOMAIN columns |-> IF columns[j] = old THEN LTemperature ELSE columns[j]]
    ELSE columns

\* Lines 115-118
RenameTemperature(columns) ==
    RenameToTemperature(RenameToTemperature(columns, LTemp), LValue)

\* Lines 119-125, from the renamed headers.
TempOf(columns, rows) ==
    IF LYear \notin Range(columns) \/ LTemperature \notin Range(columns)
    THEN [stopped |-> TRUE, out |-> <<>>]
    ELSE [stopped |-> FALSE,
          out |-> SortByYear(YearAsInt(DropNaYear(
                    [i \in DOMAIN rows |->
                       [Year  |-> CellToNumeric(rows[i][IndexOf(LYear, columns)]),
                        value |-> rows[i][IndexOf(LTemperature, columns)].num]])))]

\* load_temp(path): stopped when Year or the temperature column is missing.
load_temp(tbl) == TempOf(RenameTemperature(NormalizeHeaders(tbl.columns)), tbl.rows)

(***************************************************************************)
(* The year range, the window, the merges.                                 *)
(***************************************************************************)
\* Python's max() and min() of a sequence: an element replaces the running
\* one when it compares greater (less); a comparison with nan is false.
RECURSIVE PyMax(_)
PyMax(xs) ==
    IF Len(xs) = 1 THEN xs[1]
    ELSE LET m == PyMax(SubSeq(xs, 1, Len(xs) - 1))
             x == xs[Len(xs)]
         IN  IF x # NaN /\ m # NaN /\ x > m THEN x ELSE m

RECURSIVE PyMin(_)
PyMin(xs) ==
    IF Len(xs) = 1 THEN xs[1]
    ELSE LET m == PyMin(SubSeq(xs, 1, Len(xs) - 1))
             x == xs[Len(xs)]
         IN  IF x # NaN /\ m # NaN /\ x < m THEN x ELSE m

\* [co2_cn, co2_world, energy_cn, gdp_cn, temp_cn, disasters_cn]
SeriesList(ss) ==
    <<ss.co2_cn, ss.co2_world, ss.energy_cn, ss.gdp_cn, ss.temp_cn, ss.disasters_cn>>

YearMinUnion(list) == PyMin([k \in DOMAIN list |-> SeriesMin(list[k])])

\* Line 182: the largest of the series' first years.
YearMin(list) == PyMax([k \in DOMAIN list |-> SeriesMin(list[k])])

\* Line 183: the smallest of the series' last years.
YearMax(list) == PyMin([k \in DOMAIN list |-> SeriesMax(list[k])])

Max2(a, b) == IF a >= b THEN a ELSE b

Min2(a, b) == IF a <= b THEN a ELSE b

\* Line 186: default_start = max(int(year_min), 1980)
DefaultStart(ymin) == Max2(ymin, ModernStart)

\* The slider's range when its bounds and default value are not in order, in
\* the Streamlit versions that adjust them: the bounds are put in order, the
\* value's ends are put in order, and the bounds are widened to hold them.
SliderLo(mn, mx, s, e) == Min2(Min2(s, e), Min2(mn, mx))

SliderHi(mn, mx, s, e) == Max2(Max2(s, e), Max2(Min2(mn, mx), mx))

\* window(df): the rows with yr0 <= Year <= yr1.
Window(s, a, b) == SelectSeq(s, LAMBDA r : r.Year >= a /\ r.Year <= b)

\* The rows (Year, x, y) of the left row l and the right rows rs.
Pairs(l, rs) == [k \in DOMAIN rs |-> [Year |-> l.Year, x |-> l.value, y |-> rs[k].value]]

SameYear(l, right) == SelectSeq(right, LAMBDA r : r.Year = l.Year)

\* pd.merge(left, right, on="Year", how="inner"): a row (Year, x, y) for each
\* pair of a left row and a right row of one year.
RECURSIVE Merge(_, _)
Merge(left, right) ==
    IF left = <<>> THEN <<>>
    ELSE Merge(SubSeq(left, 1, Len(left) - 1), right)
           \o Pairs(left[Len(left)], SameYear(left[Len(left)], right))

RatioNoScale(m) ==
    [k \in DOMAIN m |-> [Year |-> m[k].Year, x |-> m[k].x, y |-> m[k].y,
                         ratio |-> FDiv(m[k].x, m[k].y)]]

\* Line 292: China_%_World = CO2_Mt / CO2_World (Mt) * 100.0
Ratio(m) ==
    [k \in DOMAIN m |-> [Year |-> m[k].Year, x |-> m[k].x, y |-> m[k].y,
                         ratio |-> FMul(FDiv(m[k].x, m[k].y), FOfCell(100))]]

(***************************************************************************)
(* Input tables of the model.                                              *)
(***************************************************************************)
RECURSIVE Pick(_, _, _)
Pick(m, S, i) ==
    IF i > Len(m) THEN <<>>
    ELSE (IF i \in S THEN <<m[i]>> ELSE <<>>) \o Pick(m, S, i + 1)

\* The subsequences of m of at most n elements.
Subseqs(m, n) ==
    {Pick(m, S, 1) : S \in {T \in SUBSET DOMAIN m : Cardinality(T) <= n}}

\* Column labels after the identifier column, in the order of the sheet:
\* "2101", "1980.0", "Notes", " 1979", "1_978".
SheetLabels == << <<"2", "1", "0", "1">>,
                  <<"1", "9", "8", "0", ".", "0">>,
                  <<"N", "o", "t", "e", "s">>,
                  <<" ", "1", "9", "7", "9">>,
                  <<"1", "_", "9", "7", "8">> >>

\* Headers of the identifier column: "country", "Nation ".
IdLabels == {Lcountry, <<"N", "a", "t", "i", "o", "n", " ">>}

\* Identifier cells: "china ", "USA".
ChinaLoose == <<"c", "h", "i", "n", "a", " ">>

USA == <<"U", "S", "A">>

\* A cell of a year column: a null cell or a number.
CellValues == {NaN, 1000}

\* The rows a sheet with the year labels h can hold.
WideRows(h, ids, vals) == {<<c>> \o v : c \in ids, v \in [1..Len(h) -> vals]}

\* tbl is a wide table: an identifier column, then at most maxc year-like
\* columns, and at most maxr rows.
IsWideTable(tbl, idlabels, labels, ids, vals, maxc, maxr) ==
    \E il \in idlabels, h \in Subseqs(labels, maxc) :
        \E n \in 0..maxr :
            \E r \in [1..n -> WideRows(h, ids, vals)] :
                tbl = [columns |-> <<il>> \o h, rows |-> r]

(***************************************************************************)
(* State.                                                                  *)
(*   df, id_col, year_cols, out, energy, mpc: one call of load_energy,     *)
(*     step by step: df is the table read from the file, then the table    *)
(*     inside _melt_years; id_col, year_cols and out are the locals of     *)
(*     _melt_years; energy is the series returned.                         *)
(*   dis_df, year_col, disasters, dpc: one call of load_disasters, step by *)
(*     step: the sheet read, the local year_col (<<>> for None), the       *)
(*     series returned.                                                    *)
(*   files .. pc: one run of the script, top to bottom.                    *)
(***************************************************************************)
VARIABLES df, id_col, year_cols, out, energy, mpc,
          dis_df, year_col, disasters, dpc,
          files, series, year_min, year_max, default_start, yr0, yr1,
          windowed, df_ct, df_ratio, ui, pc

energyVars == <<df, id_col, year_cols, out, energy, mpc>>

disVars == <<dis_df, year_col, disasters, dpc>>

runVars == <<files, series, year_min, year_max, default_start, yr0, yr1,
             windowed, df_ct, df_ratio, ui, pc>>

vars == <<energyVars, disVars, runVars>>

NoTable == [columns |-> <<>>, rows |-> <<>>]

\* load_energy is not running.
EnergyIdle ==
    /\ df = NoTable
    /\ id_col = <<>>
    /\ year_cols = <<>>
    /\ out = <<>>
    /\ energy = <<>>
    /\ mpc = "idle"

\* load_disasters is not running.
DisIdle ==
    /\ dis_df = NoTable
    /\ year_col = <<>>
    /\ disasters = <<>>
    /\ dpc = "idle"

\* The script is not running.
RunIdle ==
    /\ files = <<>>
    /\ series = <<>>
    /\ year_min = NaN
    /\ year_max = NaN
    /\ default_start = NaN
    /\ yr0 = NaN
    /\ yr1 = NaN
    /\ windowed = <<>>
    /\ df_ct = <<>>
    /\ df_ratio = <<>>
    /\ ui = {}
    /\ pc = "idle"

(***************************************************************************)
(* load_energy, step by step.                                              *)
(***************************************************************************)
EnergyInit ==
    /\ IsWideTable(df, IdLabels, SheetLabels, {ChinaLoose, USA}, CellValues,
                   MaxCols, MaxRows)
    /\ id_col = LCountry
    /\ year_cols = <<>>
    /\ out = <<>>
    /\ energy = <<>>
    /\ mpc = "read"
    /\ DisIdle
    /\ RunIdle

\* Lines 91-96: read, rename the identifier column, call _melt_years.
EnergyRead ==
    /\ mpc = "read"
    /\ df' = [df EXCEPT !.columns = RenameCountry(@, Lcountry)]
    /\ mpc' = "melt"
    /\ UNCHANGED <<id_col, year_cols, out, energy, disVars, runVars>>

\* Lines 43-62: normalise the headers, resolve the identifier column, detect
\* the year columns; stop when there is none.
MeltDetect ==
    /\ mpc = "melt"
    /\ df' = [df EXCEPT !.columns = NormalizeHeaders(@)]
    /\ id_col' = ResolveIdCol(df'.columns, id_col)
    /\ year_cols' = YearCols(df'.columns)
    /\ mpc' = IF year_cols' = <<>> THEN "stopped" ELSE "reshape"
    /\ UNCHANGED <<out, energy, disVars, runVars>>

\* Lines 64-68: melt, coerce the year labels, drop the failures, sort.
MeltReshape ==
    /\ mpc = "reshape"
    /\ out' = Reshape(df.columns, df.rows, id_col, year_cols)
    /\ mpc' = "filter"
    /\ UNCHANGED <<df, id_col, year_cols, energy, disVars, runVars>>

\* Line 97: the rows of COUNTRY, as (Year, value).
EnergyReturn ==
    /\ mpc = "filter"
    /\ energy' = YearValue(country_filter(out, COUNTRY))
    /\ mpc' = "returned"
    /\ UNCHANGED <<df, id_col, year_cols, out, disVars, runVars>>

EnergyNext == EnergyRead \/ MeltDetect \/ MeltReshape \/ EnergyReturn

SpecEnergy == EnergyInit /\ [][EnergyNext]_vars

(***************************************************************************)
(* load_disasters, step by step.                                           *)
(***************************************************************************)
LDisasterType == <<"D", "i", "s", "a", "s", "t", "e", "r", " ", "T", "y", "p", "e">>

Flood == <<"F", "l", "o", "o", "d">>

\* Headers of the year column: "Year", "Start Year", "start_year ".
YearLabels == {LYear,
               <<"S", "t", "a", "r", "t", " ", "Y", "e", "a", "r">>,
               <<"s", "t", "a", "r", "t", "_", "y", "e", "a", "r", " ">>}

CountLabels == {LDisasters, LDisasterCount}

\* Cells of the year column: 2008, 2009, "2008", "n/a".
YearCells == {Num(2008), Num(2009), Text(<<"2", "0", "0", "8">>),
              Text(<<"n", "/", "a">>)}

\* A sheet of events: a Disaster Type column, then (each optional) a year
\* column, a Country column and a count column; at most maxr rows.  The count
\* cell of row i is i.
IsDisasterSheet(tbl, maxr) ==
    \E yl \in SUBSET YearLabels, hasc \in BOOLEAN, cl \in SUBSET CountLabels :
        /\ Cardinality(yl) <= 1
        /\ Cardinality(cl) <= 1
        /\ \E n \in 0..maxr :
             \E ys \in [1..n -> IF yl = {} THEN {<<>>} ELSE {<<c>> : c \in YearCells}],
                cs \in [1..n -> IF hasc THEN {<<Text(ChinaLoose)>>, <<Text(USA)>>}
                                        ELSE {<<>>}] :
                tbl = [columns |-> <<LDisasterType>>
                                     \o (IF yl = {} THEN <<>> ELSE <<CHOOSE l \in yl : TRUE>>)
                                     \o (IF hasc THEN <<LCountry>> ELSE <<>>)
                                     \o (IF cl = {} THEN <<>> ELSE <<CHOOSE l \in cl : TRUE>>),
                       rows |-> [i \in 1..n |->
                                   <<Text(Flood)>> \o ys[i] \o cs[i]
                                     \o (IF cl = {} THEN <<>> ELSE <<Num(i)>>)]]

DisInit ==
    /\ IsDisasterSheet(dis_df, MaxEvents)
    /\ year_col = <<>>
    /\ disasters = <<>>
    /\ dpc = "read"
    /\ EnergyIdle
    /\ RunIdle

\* Lines 135-136: read the sheet, normalise the headers.
DisRead ==
    /\ dpc = "read"
    /\ dis_df' = [dis_df EXCEPT !.columns = NormalizeHeaders(@)]
    /\ dpc' = "shape"
    /\ UNCHANGED <<year_col, disasters, energyVars, runVars>>

\* Lines 139-144: the tidy case.
DisTidy ==
    /\ dpc = "shape"
    /\ TidyShape(dis_df.columns)
    /\ IF TidyRaises(dis_df.columns, dis_df.rows)
       THEN dpc' = "raised" /\ UNCHANGED disasters
       ELSE /\ disasters' = TidyDisasters(dis_df.columns, dis_df.rows)
            /\ dpc' = "returned"
    /\ UNCHANGED <<dis_df, year_col, energyVars, runVars>>

\* Lines 148-157: the raw case: find the year column, stop when there is none.
DisFindYear ==
    /\ dpc = "shape"
    /\ ~TidyShape(dis_df.columns)
    /\ year_col' = FindYearCol(dis_df.columns)
    /\ dpc' = IF year_col' = <<>> THEN "stopped" ELSE "aggregate"
    /\ UNCHANGED <<dis_df, disasters, energyVars, runVars>>

\* Lines 160-168: filter the country, count the rows of each year.
DisAggregate ==
    /\ dpc = "aggregate"
    /\ disasters' = RawDisasters(dis_df.columns, dis_df.rows, year_col[1])
    /\ dpc' = "returned"
    /\ UNCHANGED <<dis_df, year_col, energyVars, runVars>>

DisNext == DisRead \/ DisTidy \/ DisFindYear \/ DisAggregate

SpecDisasters == DisInit /\ [][DisNext]_vars

(***************************************************************************)
(* The script, top to bottom: the five loads, the year range, the slider,  *)
(* the windows, the charts.                                                *)
(***************************************************************************)
L1979 == <<"1", "9", "7", "9">>

L1980 == <<"1", "9", "8", "0">>

LStartYear == <<"S", "t", "a", "r", "t", " ", "Y", "e", "a", "r">>

\* The rows of the CO2 sheets: China with each cell null or 1000, and USA
\* with 1000 and 1000.
Co2Rows == {<<COUNTRY>> \o v : v \in [1..2 -> CellValues]} \cup {<<USA, 1000, 1000>>}

\* The CO2 sheets: "country", "1979", "1980", and at most MaxRows rows.
Co2Sheets ==
    {[columns |-> <<Lcountry, L1979, L1980>>, rows |-> r] :
        r \in UNION {[1..n -> Co2Rows] : n \in 0..MaxRows}}

\* The energy sheets: China with a null cell, and no China row.
EnergySheets ==
    {[columns |-> <<Lcountry, L1979, L1980>>,
      rows |-> <<<<ChinaLoose, 500, NaN>>, <<USA, 700, 700>>>>],
     [columns |-> <<Lcountry, L1979, L1980>>,
      rows |-> <<<<USA, 700, 700>>>>]}

\* The GDP sheets: China in 1979 and 1980, and China in 1980 alone.
GdpSheets ==
    {[columns |-> <<LCountryName, L1979, L1980>>, rows |-> <<<<COUNTRY, 7, 8>>>>],
     [columns |-> <<<<"N", "a", "m", "e">>, L1980>>, rows |-> <<<<COUNTRY, 8>>>>]}

\* The temperature files: 1979 and 1980; 1980, 1979 and "1979"; 1979 alone.
TempSheets ==
    {[columns |-> <<LYear, LTemp>>,
      rows |-> <<<<Num(1979), Num(14)>>, <<Num(1980), Num(15)>>>>],
     [columns |-> <<LYear, LValue>>,
      rows |-> <<<<Num(1980), Num(15)>>, <<Num(1979), Num(14)>>,
                 <<Text(L1979), Num(13)>>>>],
     [columns |-> <<LYear, LTemperature>>,
      rows |-> <<<<Num(1979), Num(14)>>>>]}

\* The disaster sheets: tidy 1979 and 1980; raw, two 1980 events of China
\* and one of USA; raw, no event of China; tidy 1981 alone; no year column.
DisasterSheets ==
    {[columns |-> <<LYear, LDisasters>>,
      rows |-> <<<<Num(1979), Num(3)>>, <<Num(1980), Num(5)>>>>],
     [columns |-> <<LStartYear, LCountry>>,
      rows |-> <<<<Num(1980), Text(COUNTRY)>>, <<Num(1980), Text(ChinaLoose)>>,
                 <<Num(1979), Text(USA)>>>>],
     [columns |-> <<LStartYear, LCountry>>,
      rows |-> <<<<Num(1980), Text(USA)>>>>],
     [columns |-> <<LYear, LDisasterCount>>,
      rows |-> <<<<Num(1981), Num(2)>>>>],
     [columns |-> <<LDisasterType, LCountry>>,
      rows |-> <<<<Text(Flood), Text(COUNTRY)>>>>]}

NoSeries == [co2_cn |-> <<>>, co2_world |-> <<>>, energy_cn |-> <<>>,
             gdp_cn |-> <<>>, temp_cn |-> <<>>, disasters_cn |-> <<>>]

RunInit ==
    /\ \E c \in Co2Sheets, e \in EnergySheets, g \in GdpSheets, t \in TempSheets,
          d \in DisasterSheets :
          files = [co2 |-> c, energy |-> e, gdp |-> g, temp |-> t, disasters |-> d]
    /\ series = NoSeries
    /\ year_min = NaN
    /\ year_max = NaN
    /\ default_start = NaN
    /\ yr0 = NaN
    /\ yr1 = NaN
    /\ windowed = NoSeries
    /\ df_ct = <<>>
    /\ df_ratio = <<>>
    /\ ui = {}
    /\ pc = "load_co2"
    /\ EnergyIdle
    /\ DisIdle

\* Line 173
LoadCo2 ==
    /\ pc = "load_co2"
    /\ \E r \in {load_co2(files.co2)} :
           IF r.stopped
           THEN pc' = "stopped" /\ UNCHANGED series
           ELSE /\ series' = [series EXCEPT !.co2_cn = r.co2_cn, !.co2_world = r.co2_world]
                /\ pc' = "load_energy"
    /\ UNCHANGED <<files, year_min, year_max, default_start, yr0, yr1, windowed,
                   df_ct, df_ratio, ui, energyVars, disVars>>

\* Line 174
LoadEnergy ==
    /\ pc = "load_energy"
    /\ \E r \in {load_energy(files.energy)} :
           IF r.stopped
           THEN pc' = "stopped" /\ UNCHANGED series
           ELSE /\ series' = [series EXCEPT !.energy_cn = r.out]
                /\ pc' = "load_gdp"
    /\ UNCHANGED <<files, year_min, year_max, default_start, yr0, yr1, windowed,
                   df_ct, df_ratio, ui, energyVars, disVars>>

\* Line 175
LoadGdp ==
    /\ pc = "load_gdp"
    /\ \E r \in {load_gdp(files.gdp)} :
           IF r.stopped
           THEN pc' = "stopped" /\ UNCHANGED series
           ELSE /\ series' = [series EXCEPT !.gdp_cn = r.out]
                /\ pc' = "load_temp"
    /\ UNCHANGED <<files, year_min, year_max, default_start, yr0, yr1, windowed,
                   df_ct, df_ratio, ui, energyVars, disVars>>

\* Line 176
LoadTemp ==
    /\ pc = "load_temp"
    /\ \E r \in {load_temp(files.temp)} :
           IF r.stopped
           THEN pc' = "stopped" /\ UNCHANGED series
           ELSE /\ series' = [series EXCEPT !.temp_cn = r.out]
                /\ pc' = "load_disasters"
    /\ UNCHANGED <<files, year_min, year_max, default_start, yr0, yr1, windowed,
                   df_ct, df_ratio, ui, energyVars, disVars>>

\* Line 177
LoadDisasters ==
    /\ pc = "load_disasters"
    /\ \E r \in {load_disasters(files.disasters)} :
           IF r.stopped \/ r.raised
           THEN pc' = (IF r.stopped THEN "stopped" ELSE "raised") /\ UNCHANGED series
           ELSE /\ series' = [series EXCEPT !.disasters_cn = r.out]
                /\ pc' = "year_range"
    /\ UNCHANGED <<files, year_min, year_max, default_start, yr0, yr1, windowed,
                   df_ct, df_ratio, ui, energyVars, disVars>>

\* Lines 182-186: year_min, year_max, default_start; int() of a nan raises.
YearRange ==
    /\ pc = "year_range"
    /\ year_min' = YearMin(SeriesList(series))
    /\ year_max' = YearMax(SeriesList(series))
    /\ IF year_min' = NaN \/ year_max' = NaN
       THEN pc' = "raised" /\ UNCHANGED default_start
       ELSE /\ default_start' = DefaultStart(year_min')
            /\ pc' = "slider"
    /\ UNCHANGED <<files, series, yr0, yr1, windowed, df_ct, df_ratio, ui,
                   energyVars, disVars>>

SliderInOrder == year_min <= default_start /\ default_start <= year_max

\* Line 187, bounds and default value in order: the user's range, any
\* yr0 <= yr1 inside [year_min, year_max] (the default value on a first run).
SliderInRange ==
    /\ pc = "slider"
    /\ SliderInOrder
    /\ \E a, b \in year_min..year_max :
          a <= b /\ yr0' = a /\ yr1' = b
    /\ pc' = "window"
    /\ UNCHANGED <<files, series, year_min, year_max, default_start, windowed,
                   df_ct, df_ratio, ui, energyVars, disVars>>

\* Line 187, bounds or default value out of order, in a Streamlit that
\* adjusts them: any yr0 <= yr1 inside the adjusted range.
SliderAdjusted ==
    /\ pc = "slider"
    /\ ~SliderInOrder
    /\ \E a, b \in SliderLo(year_min, year_max, default_start, year_max)
                     ..SliderHi(year_min, year_max, default_start, year_max) :
          a <= b /\ yr0' = a /\ yr1' = b
    /\ pc' = "window"
    /\ UNCHANGED <<files, series, year_min, year_max, default_start, windowed,
                   df_ct, df_ratio, ui, energyVars, disVars>>

\* Line 187, bounds or default value out of order, in a Streamlit that
\* raises on them.
SliderRejected ==
    /\ pc = "slider"
    /\ ~SliderInOrder
    /\ pc' = "raised"
    /\ UNCHANGED <<files, series, year_min, year_max, default_start, yr0, yr1,
                   windowed, df_ct, df_ratio, ui, energyVars, disVars>>

\* Lines 189-197
WindowAll ==
    /\ pc = "window"
    /\ windowed' = [f \in DOMAIN series |-> Window(series[f], yr0, yr1)]
    /\ pc' = "charts"
    /\ UNCHANGED <<files, series, year_min, year_max, default_start, yr0, yr1,
                   df_ct, df_ratio, ui, energyVars, disVars>>

\* Lines 209-256: the four line charts, drawn whatever the series holds, and
\* the disaster chart, or its placeholder when the window holds no disaster row.
RenderCharts ==
    /\ pc = "charts"
    /\ ui' = ui \cup {"chart_co2", "chart_temperature", "chart_energy", "chart_gdp"}
                \cup (IF windowed.disasters_cn # <<>> THEN {"chart_disasters"}
                                                      ELSE {"info_disasters"})
    /\ pc' = "scatter"
    /\ UNCHANGED <<files, series, year_min, year_max, default_start, yr0, yr1,
                   windowed, df_ct, df_ratio, energyVars, disVars>>

NotNaCount(m) == Cardinality({k \in DOMAIN m : ~FIsNa(m[k].x)})

\* Lines 261-280: the CO2-temperature scatter, or its placeholder.
RenderScatter ==
    /\ pc = "scatter"
    /\ df_ct' = Merge(windowed.co2_cn, windowed.temp_cn)
    /\ ui' = ui \cup (IF df_ct' # <<>> /\ NotNaCount(df_ct') > 1
                      THEN {"chart_scatter"} ELSE {"info_scatter"})
    /\ pc' = "ratio"
    /\ UNCHANGED <<files, series, year_min, year_max, default_start, yr0, yr1,
                   windowed, df_ratio, energyVars, disVars>>

\* Lines 286-299: the ratio series and its chart, or its placeholder.
RenderRatio ==
    /\ pc = "ratio"
    /\ df_ratio' = Ratio(Merge(windowed.co2_cn, windowed.co2_world))
    /\ ui' = ui \cup (IF df_ratio' # <<>> THEN {"chart_ratio"} ELSE {"info_ratio"})
    /\ pc' = "done"
    /\ UNCHANGED <<files, series, year_min, year_max, default_start, yr0, yr1,
                   windowed, df_ct, energyVars, disVars>>

Next ==
    \/ LoadCo2 \/ LoadEnergy \/ LoadGdp \/ LoadTemp \/ LoadDisasters
    \/ YearRange
    \/ SliderInRange \/ SliderAdjusted \/ SliderRejected
    \/ WindowAll
    \/ RenderCharts \/ RenderScatter \/ RenderRatio

Spec == RunInit /\ [][Next]_vars

(***************************************************************************)
(* Properties of load_energy and _melt_years (SpecEnergy).                 *)
(***************************************************************************)
\* What Python's int(float(label)) is for each label of the sheets; NaN
\* where it raises.
LabelInt(c) ==
    CASE c = <<"2", "1", "0", "1">> -> 2101
      [] c = <<"1", "9", "8", "0", ".", "0">> -> 1980
      [] c = <<"1", "9", "7", "9">> -> 1979
      [] c = <<"1", "_", "9", "7", "8">> -> 1978
      [] OTHER -> NaN

\* What pd.to_numeric, then int, make of each label; NaN where the coercion
\* fails ("1_978").
LabelNumeric(c) == IF c = <<"1", "_", "9", "7", "8">> THEN NaN ELSE LabelInt(c)

LabelIsYear(c) == YearLo <= LabelInt(c) /\ LabelInt(c) <= YearHi

Detected == mpc \in {"reshape", "stopped", "filter", "returned"}

Reshaped == mpc \in {"filter", "returned"}

\* C7: the detector keeps exactly the labels whose float value, truncated, is
\* in [1700, 2100], in the order of the columns; it stops the load exactly
\* when no label is one.
C7_DetectorAcceptsYears ==
    Detected =>
        /\ year_cols = SelectSeq(df.columns, LabelIsYear)
        /\ (mpc = "stopped") = (\A j \in DOMAIN df.columns : ~LabelIsYear(df.columns[j]))

\* A sheet with one year column and one rejected column.
C7_Witness ==
    /\ mpc = "reshape"
    /\ Len(year_cols) = 1
    /\ Len(df.columns) = 3

\* The detected year columns whose label the coercion accepts.
ValidYearCols == SelectSeq(year_cols, LAMBDA c : LabelNumeric(c) # NaN)

\* The output row of the cell of row i under the year column c.
CellRow(i, c) ==
    [id    |-> df.rows[i][IndexOf(LCountry, df.columns)],
     Year  |-> LabelNumeric(c),
     value |-> df.rows[i][IndexOf(c, df.columns)]]

Cells == (DOMAIN df.rows) \X (DOMAIN ValidYearCols)

CellRows == {CellRow(x[1], ValidYearCols[x[2]]) : x \in Cells}

\* C1: the reshaped table has rows x year columns rows, less those of the
\* columns whose label fails the coercion, and holds each cell's row
\* (identifier, year as an integer, value) as often as the sheet holds it.
C1_MeltIsBijection ==
    Reshaped =>
        /\ Len(out) = Len(df.rows) * Len(year_cols)
                        - Len(df.rows) * (Len(year_cols) - Len(ValidYearCols))
        /\ \A rec \in Range(out) \cup CellRows :
             Cardinality({k \in DOMAIN out : out[k] = rec})
               = Cardinality({x \in Cells : CellRow(x[1], ValidYearCols[x[2]]) = rec})

\* Two rows, two detected year columns, one of them dropped by the coercion.
C1_Witness ==
    /\ mpc = "filter"
    /\ Len(df.rows) = 2
    /\ Len(year_cols) = 2
    /\ Len(out) = 2

NullCells == {x \in Cells : df.rows[x[1]][IndexOf(ValidYearCols[x[2]], df.columns)] = NaN}

IsChinaRow(i) == df.rows[i][IndexOf(LCountry, df.columns)] = ChinaLoose

\* C10 as claimed: a null cell gives no row, in the reshaped table or in the
\* series.
C10_NullCellsDropped ==
    Reshaped =>
        /\ Len(out) = Cardinality(Cells \ NullCells)
        /\ \A k \in DOMAIN out : out[k].value # NaN
        /\ \A k \in DOMAIN energy : energy[k].value # NaN

\* C10 as the code has it: a null cell gives a row with a missing value, in
\* the reshaped table and, for a row of the country, in the series.
C10_NullCellsKept ==
    /\ Reshaped =>
         /\ \A x \in NullCells : CellRow(x[1], ValidYearCols[x[2]]) \in Range(out)
         /\ Cardinality({k \in DOMAIN out : out[k].value = NaN}) = Cardinality(NullCells)
    /\ mpc = "returned" =>
         /\ \A x \in NullCells :
              IsChinaRow(x[1]) =>
                 [Year |-> LabelNumeric(ValidYearCols[x[2]]), value |-> NaN] \in Range(energy)
         /\ Cardinality({k \in DOMAIN energy : energy[k].value = NaN})
              = Cardinality({x \in NullCells : IsChinaRow(x[1])})

\* The series of a sheet whose country row has a null cell under a year column.
C10_Witness ==
    /\ mpc = "returned"
    /\ \E x \in NullCells : IsChinaRow(x[1])
    /\ \E k \in DOMAIN energy : energy[k].value = NaN

(***************************************************************************)
(* Properties of load_disasters (SpecDisasters).                           *)
(***************************************************************************)
\* The number a cell of the year column stands for; NaN for a text that is
\* no number.
YearCellInt(c) ==
    IF c = Num(2008) \/ c = Text(<<"2", "0", "0", "8">>) THEN 2008
    ELSE IF c = Num(2009) THEN 2009
    ELSE NaN

\* The headers of the sheets that name a year column, as read.
YearLikeHeaders == {LYear,
                    <<"S", "t", "a", "r", "t", " ", "Y", "e", "a", "r">>,
                    <<"s", "t", "a", "r", "t", "_", "y", "e", "a", "r">>}

HasYearHeader == \E j \in DOMAIN dis_df.columns : dis_df.columns[j] \in YearLikeHeaders

YearPos == CHOOSE j \in DOMAIN dis_df.columns : dis_df.columns[j] \in YearLikeHeaders

HasCountHeader ==
    LDisasters \in Range(dis_df.columns) \/ LDisasterCount \in Range(dis_df.columns)

HasCountryHeader == LCountry \in Range(dis_df.columns)

\* The event rows that count: a numeric year and, when the sheet has a
\* Country column, the country.
CountedEvents ==
    {i \in DOMAIN dis_df.rows :
        /\ YearCellInt(dis_df.rows[i][YearPos]) # NaN
        /\ HasCountryHeader =>
             dis_df.rows[i][IndexOf(LCountry, dis_df.columns)] = Text(ChinaLoose)}

EventYear(i) == YearCellInt(dis_df.rows[i][YearPos])

RawReturned == dpc = "returned" /\ year_col # <<>>

\* C3: for a raw sheet the series has one row per year of a counted event,
\* with the number of that year's counted events, in ascending year order.
C3_RawCountsPerYear ==
    RawReturned =>
        /\ {disasters[k].Year : k \in DOMAIN disasters} = {EventYear(i) : i \in CountedEvents}
        /\ \A k \in DOMAIN disasters :
             disasters[k].value
               = Cardinality({i \in CountedEvents : EventYear(i) = disasters[k].Year})
        /\ \A k \in 1..(Len(disasters) - 1) : disasters[k].Year < disasters[k + 1].Year

\* Two 2008 events and one 2009 event of the country ("china ") give
\* [(2008, 2), (2009, 1)].
C3_Witness ==
    /\ RawReturned
    /\ HasCountryHeader
    /\ Len(dis_df.rows) = 3
    /\ \A i \in DOMAIN dis_df.rows :
         dis_df.rows[i][IndexOf(LCountry, dis_df.columns)] = Text(ChinaLoose)
    /\ disasters = <<[Year |-> 2008, value |-> 2], [Year |-> 2009, value |-> 1]>>

DisFinished == dpc \in {"stopped", "returned", "raised"}

Loaded ==
    /\ pc \notin {"load_co2", "load_energy", "load_gdp", "load_temp",
                  "load_disasters", "stopped"}
    /\ ~load_disasters(files.disasters).raised

\* The slider returned a range.
Windowed == pc \in {"window", "charts", "scatter", "ratio", "done"}

StrictlyIncreasing(s) == \A i \in 1..(Len(s) - 1) : s[i].Year < s[i + 1].Year

\* C2: after load, the Year values of each of the six series are pairwise
\* distinct and strictly increasing in row order.
C2_YearsStrictlyIncreasing ==
    Loaded => \A k \in DOMAIN SeriesList(series) :
                  StrictlyIncreasing(SeriesList(series)[k])

\* The series that hold two rows with year range inside [a, b].
Narrowed(a, b) ==
    {<<[Year |-> x, value |-> 0], [Year |-> y, value |-> 0]>> :
        x \in a..b, y \in a..b}

AllNonEmpty == \A k \in DOMAIN SeriesList(series) : SeriesList(series)[k] # <<>>

\* C6: with six non-empty series, year_min is at least every series' first
\* year and year_max at most every series' last year; and with any one series
\* replaced by a series whose years lie inside the replaced one's range,
\* line 182 gives no smaller year_min and line 183 no larger year_max.
C6_BoundsInsideEverySeries ==
    (pc = "slider" /\ AllNonEmpty) =>
        \A k \in DOMAIN SeriesList(series) :
            /\ year_min >= SeriesMin(SeriesList(series)[k])
            /\ year_max <= SeriesMax(SeriesList(series)[k])
            /\ \A t \in Narrowed(SeriesMin(SeriesList(series)[k]),
                                 SeriesMax(SeriesList(series)[k])) :
                  /\ YearMin([SeriesList(series) EXCEPT ![k] = t]) >= year_min
                  /\ YearMax([SeriesList(series) EXCEPT ![k] = t]) <= year_max

\* Six non-empty series, one that starts later than another, and one that
\* spans two years, so that it has a strictly narrower replacement.
C6_Witness ==
    /\ pc = "slider"
    /\ AllNonEmpty
    /\ year_min > SeriesMin(series.co2_world)
    /\ year_min = SeriesMin(series.gdp_cn)
    /\ SeriesMin(series.temp_cn) < SeriesMax(series.temp_cn)

\* C5: the default window [default_start, year_max] and every window the
\* slider returns are non-empty and inside [year_min, year_max].
C5_WindowInsideBounds ==
    /\ pc = "slider" => /\ year_min <= default_start
                        /\ default_start <= year_max
    /\ Windowed => /\ year_min <= yr0
                   /\ yr0 <= yr1
                   /\ yr1 <= year_max

\* The series the country filter produces, their charts and the placeholders
\* that would stand in for them.
Filtered == {"co2_cn", "energy_cn", "gdp_cn", "disasters_cn"}

ChartOf == [co2_cn |-> "chart_co2", energy_cn |-> "chart_energy",
            gdp_cn |-> "chart_gdp", disasters_cn |-> "chart_disasters"]

InfoOf == [co2_cn |-> "info_co2", energy_cn |-> "info_energy",
           gdp_cn |-> "info_gdp", disasters_cn |-> "info_disasters"]

\* C8: when the loads returned and the country filter left some series
\* empty, int() of the bounds does not raise, and the pass ends with the
\* placeholder, not the chart, of each empty series.
C8_EmptySeriesHandled ==
    \A f \in Filtered :
        (Loaded /\ series[f] = <<>>) =>
            /\ ~(pc = "raised" /\ (year_min = NaN \/ year_max = NaN))
            /\ pc = "done" => (InfoOf[f] \in ui /\ ChartOf[f] \notin ui)

\* The CO2 sheet's cell of row i for year y (columns country, 1979, 1980).
Co2Cell(i, y) == files.co2.rows[i][y - 1977]

Co2IsChina(i) == Lower(Strip(files.co2.rows[i][1])) = Lower(COUNTRY)

\* The sum of the non-null cells of year y in the first n rows, in kt.
RECURSIVE WorldKt(_, _)
WorldKt(n, y) ==
    IF n = 0 THEN 0
    ELSE WorldKt(n - 1, y) + (IF Co2Cell(n, y) = NaN THEN 0 ELSE Co2Cell(n, y))

\* The float r is c / w * 100 (missing when the cell c is null).
RatioIs(r, c, w) ==
    IF c = NaN THEN FIsNa(r)
    ELSE r.d > 0 /\ r.n * w = 100 * c * r.d

InWindow(y) == yr0 <= y /\ y <= yr1

\* C4 as stated: every ratio row is of a year of both windowed series and
\* carries a defined value, country / world * 100.
C4_RatioRowsDefined ==
    pc = "done" =>
        \A k \in DOMAIN df_ratio :
            /\ df_ratio[k].Year \in Range(YearsOf(windowed.co2_cn))
            /\ df_ratio[k].Year \in Range(YearsOf(windowed.co2_world))
            /\ ~FIsNa(df_ratio[k].ratio)
            /\ \E i \in DOMAIN files.co2.rows :
                  /\ Co2IsChina(i)
                  /\ Co2Cell(i, df_ratio[k].Year) # NaN
                  /\ RatioIs(df_ratio[k].ratio, Co2Cell(i, df_ratio[k].Year),
                             WorldKt(Len(files.co2.rows), df_ratio[k].Year))

\* C4, amended: the ratio series holds one row per pair of same-year rows of
\* the two windowed series, every row of a year inside the window; for each
\* year and cell value, as many rows carry that cell / world * 100 (missing
\* for a null cell) as the sheet has rows of the country with that cell.
C4_RatioOfMatchedRows ==
    pc = "done" =>
        /\ Len(df_ratio) =
              Cardinality({p \in (DOMAIN windowed.co2_cn) \X (DOMAIN windowed.co2_world) :
                              windowed.co2_cn[p[1]].Year = windowed.co2_world[p[2]].Year})
        /\ \A k \in DOMAIN df_ratio :
              /\ df_ratio[k].Year \in Range(YearsOf(windowed.co2_cn))
              /\ df_ratio[k].Year \in Range(YearsOf(windowed.co2_world))
              /\ InWindow(df_ratio[k].Year)
        /\ \A y \in {1979, 1980}, c \in CellValues :
              Cardinality({k \in DOMAIN df_ratio :
                              /\ df_ratio[k].Year = y
                              /\ RatioIs(df_ratio[k].ratio, c,
                                         WorldKt(Len(files.co2.rows), y))})
                = IF InWindow(y)
                  THEN Cardinality({i \in DOMAIN files.co2.rows :
                                       Co2IsChina(i) /\ Co2Cell(i, y) = c})
                  ELSE 0

\* A ratio series with a missing value (the null 1979 cell) and the value 50
\* (1000 kt of 2000 kt).
C4_Witness ==
    /\ pc = "done"
    /\ \E k \in DOMAIN df_ratio : FIsNa(df_ratio[k].ratio)
    /\ \E k \in DOMAIN df_ratio : df_ratio[k].ratio = [n |-> 50, d |-> 1]

====
